---------------------------- MODULE Spec2Model ----------------------------
(***************************************************************************)
(* Roofing cost calculator: the pricing catalog, the cost estimator        *)
(* (calculateRoofingCost), the area estimator (calculateRoofSize) and the  *)
(* form component that calls them (RoofingCalculator).                     *)
(*                                                                         *)
(* JavaScript numbers are modelled as exact rationals [n |-> numerator,    *)
(* d |-> denominator > 0] in lowest terms, i.e. the real-number value the  *)
(* floating-point computation approximates.  Roof areas are integers; the  *)
(* footprint given to the area estimator is a rational.                    *)
(***************************************************************************)
EXTENDS Integers, Sequences, FiniteSets, TLC

VARIABLES
    call,               \* library harness: the invocation [fn, arg]
    ret,                \* library harness: what that invocation produced
    formData,           \* component state: useState<CalculatorFormData>
    roofSizeHelper,     \* component state: useState<RoofSizeHelperData>
    results,            \* component state: CostBreakdown | null
    showResults,        \* component state: boolean
    calculatedRoofSize, \* component state: number | null
    effectPending,      \* the useEffect on [formData.roofingType] is queued
    estimatorArg,       \* the formData of the last calculateRoofingCost call
    ops,                \* number of user events handled since mount
    catalog,            \* the module objects materialPricing, materialLabels
    history             \* the invocations made so far, with their outcomes

vars == <<call, ret, formData, roofSizeHelper, results, showResults,
          calculatedRoofSize, effectPending, estimatorArg, ops, catalog,
          history>>

moduleVars == <<catalog, history>>

libVars == <<call, ret, catalog, history>>

formVars == <<formData, roofSizeHelper, results, showResults,
              calculatedRoofSize, effectPending, estimatorArg, ops>>

----------------------------------------------------------------------------
(* Bounds of the model                                                     *)

MaxArea == 3

MaxFootprint == 4

MaxOps == 5

MaxCalls == 3

----------------------------------------------------------------------------
(* Exact rational arithmetic standing for the JavaScript number operators  *)

Abs(x) == IF x < 0 THEN -x ELSE x

RECURSIVE GCD(_, _)
GCD(a, b) == IF b = 0 THEN a ELSE GCD(b, a % b)

Rat(n, d) == LET g == GCD(Abs(n), d) IN [n |-> n \div g, d |-> d \div g]

Num(i) == [n |-> i, d |-> 1]

RMul(x, y) ==
    LET g1 == GCD(Abs(x.n), y.d)
        g2 == GCD(Abs(y.n), x.d)
    IN  Rat((x.n \div g1) * (y.n \div g2), (x.d \div g2) * (y.d \div g1))

RAdd(x, y) ==
    LET g == GCD(x.d, y.d)
        l == (x.d \div g) * y.d
    IN  Rat(x.n * (l \div x.d) + y.n * (l \div y.d), l)

RLe(x, y) ==
    LET g == GCD(x.d, y.d)
        l == (x.d \div g) * y.d
    IN  x.n * (l \div x.d) <= y.n * (l \div y.d)

----------------------------------------------------------------------------
(* Types of src/unnamed/part_000 (types/roofing)                           *)

RoofingType == {"residential", "commercial"}

MaterialType == {"asphalt", "clay", "metal", "wood", "slate", "membrane",
                 "tpo", "pvc", "epdm", "modified", "bur"}

JobType == {"new", "replacement", "repair"}

ComplexityType == {"simple", "medium", "complex"}

PitchType == {"flat", "low", "medium", "steep"}

----------------------------------------------------------------------------
(* Pricing catalog: [low, high] price per square foot                      *)

(* variant: the two prices of one entry (residential clay) are swapped *)
materialPricing_ClaySwapped ==
    [residential |->
        [asphalt  |-> <<Num(5),  Num(10)>>,
         clay     |-> <<Num(25), Num(11)>>,
         metal    |-> <<Num(7),  Num(20)>>,
         wood     |-> <<Num(8),  Num(15)>>,
         slate    |-> <<Num(15), Num(40)>>,
         membrane |-> <<Num(7),  Num(12)>>],
     commercial |->
        [tpo      |-> <<Num(4),    Num(8)>>,
         pvc      |-> <<Num(5),    Num(9)>>,
         epdm     |-> <<Num(4),    Num(9)>>,
         modified |-> <<Rat(9, 2), Num(9)>>,
         bur      |-> <<Rat(11, 2), Num(10)>>,
         metal    |-> <<Num(8),    Num(15)>>,
         asphalt  |-> <<Num(7),    Num(10)>>]]

materialPricing ==
    [residential |->
        [asphalt  |-> <<Num(5),  Num(10)>>,
         clay     |-> <<Num(11), Num(25)>>,
         metal    |-> <<Num(7),  Num(20)>>,
         wood     |-> <<Num(8),  Num(15)>>,
         slate    |-> <<Num(15), Num(40)>>,
         membrane |-> <<Num(7),  Num(12)>>],
     commercial |->
        [tpo      |-> <<Num(4),    Num(8)>>,
         pvc      |-> <<Num(5),    Num(9)>>,
         epdm     |-> <<Num(4),    Num(9)>>,
         modified |-> <<Rat(9, 2), Num(9)>>,
         bur      |-> <<Rat(11, 2), Num(10)>>,
         metal    |-> <<Num(8),    Num(15)>>,
         asphalt  |-> <<Num(7),    Num(10)>>]]

(* Object.keys(materialPricing[roofingType]): insertion order of the keys  *)
materialKeys ==
    [residential |-> <<"asphalt", "clay", "metal", "wood", "slate", "membrane">>,
     commercial  |-> <<"tpo", "pvc", "epdm", "modified", "bur", "metal",
                       "asphalt">>]

materialLabels ==
    [residential |->
        [asphalt  |-> "Asphalt Shingles",
         clay     |-> "Clay/Concrete Tile",
         metal    |-> "Metal",
         wood     |-> "Wood Shake/Shingles",
         slate    |-> "Slate",
         membrane |-> "Flat Membrane (EPDM/TPO)"],
     commercial |->
        [tpo      |-> "TPO Membrane",
         pvc      |-> "PVC Membrane",
         epdm     |-> "EPDM Rubber",
         modified |-> "Modified Bitumen",
         bur      |-> "Built-Up Roofing (BUR)",
         metal    |-> "Metal",
         asphalt  |-> "Asphalt Shingles"]]

(* the two exported objects as they are when the module has been loaded *)
loadedCatalog == [pricing |-> materialPricing, labels |-> materialLabels]

(* a number inside a template literal: whole numbers and halves are the    *)
(* prices the catalog holds                                                *)
NumberToString(x) ==
    IF x.d = 1 THEN ToString(x.n)
    ELSE IF x.d = 2 THEN ToString(x.n \div 2) \o ".5"
    ELSE ToString(x.n) \o "/" \o ToString(x.d)

(* variant: the display names are always taken from the residential table *)
LabelOf_ResidentialTable(roofingType, material) ==
    IF material \in DOMAIN catalog.labels["residential"]
    THEN catalog.labels["residential"][material] ELSE "undefined"

(* a label that the labels table does not define renders as "undefined" *)
LabelOf(roofingType, material) ==
    IF material \in DOMAIN catalog.labels[roofingType]
    THEN catalog.labels[roofingType][material] ELSE "undefined"

getMaterialOptions(roofingType) ==
    LET pricing == catalog.pricing[roofingType]
        keys    == materialKeys[roofingType]
    IN  [i \in 1 .. Len(keys) |->
            [value     |-> keys[i],
             label     |-> LabelOf(roofingType, keys[i]) \o " ($"
                             \o NumberToString(pricing[keys[i]][1]) \o "-$"
                             \o NumberToString(pricing[keys[i]][2])
                             \o "/sq ft)",
             costRange |-> pricing[keys[i]]]]

----------------------------------------------------------------------------
(* Outcomes of a call of the cost estimator                                *)

Null == [kind |-> "null"]

TypeError == [kind |-> "TypeError"]

NoCall == [kind |-> "none"]

(* variant: the roofSize <= 0 test is left out of the guard *)
InsufficientInput_NoSignTest(fd) == fd.roofSize = 0 \/ fd.material = ""

(* if (!roofSize || !material || roofSize <= 0) return null *)
InsufficientInput(fd) ==
    fd.roofSize = 0 \/ fd.material = "" \/ fd.roofSize <= 0

(* variant: the sum of the two prices is not halved *)
MidCost_NotHalved(lowCost, highCost) == RAdd(lowCost, highCost)

(* const midCost = (lowCost + highCost) / 2 *)
MidCost(lowCost, highCost) == RMul(RAdd(lowCost, highCost), Rat(1, 2))

complexityMultipliers ==
    [simple |-> Num(0), medium |-> Rat(1, 5), complex |-> Rat(2, 5)]

(* variant: the complexity multiplier is not weighted by the labor share *)
LaborMultiplier_Unweighted(complexity) ==
    RAdd(Num(1), complexityMultipliers[complexity])

(* const laborMultiplier = 1 + (complexityMultiplier * 0.4) *)
LaborMultiplier(complexity) ==
    RAdd(Num(1), RMul(complexityMultipliers[complexity], Rat(2, 5)))

(* if (roofingType === 'commercial') base *= 1.1 *)
CommercialAdjustment(base, roofingType) ==
    IF roofingType = "commercial" THEN RMul(base, Rat(11, 10)) ELSE base

(* variant: tear-off is charged whatever the job type *)
Addons_AnyJobType(fd) ==
    LET tearoffCost == IF fd.tearoff
                       THEN RMul(Num(fd.roofSize), Rat(3, 2)) ELSE Num(0)
    IN  IF fd.permits THEN RAdd(tearoffCost, Num(500)) ELSE tearoffCost

(* let addons = 0; tear-off on a replacement adds roofSize * 1.5, permits  *)
(* add 500                                                                 *)
Addons(fd) ==
    LET tearoffCost == IF fd.tearoff /\ fd.jobType = "replacement"
                       THEN RMul(Num(fd.roofSize), Rat(3, 2)) ELSE Num(0)
    IN  IF fd.permits THEN RAdd(tearoffCost, Num(500)) ELSE tearoffCost

(* if (jobType === 'repair') base *= 0.6 *)
RepairModifier(base, jobType) ==
    IF jobType = "repair" THEN RMul(base, Rat(3, 5)) ELSE base

(* variant: the materials share is taken as the labor share *)
MaterialsCost_LaborShare(totalMid) == RMul(totalMid, Rat(2, 5))

(* const materialsCost = totalMid * 0.6 *)
MaterialsCost(totalMid) == RMul(totalMid, Rat(3, 5))

(* const laborCost = totalMid * 0.4 *)
LaborCost(totalMid) == RMul(totalMid, Rat(2, 5))

(* calculateRoofingCost reads the catalog and copies the two prices into   *)
(* locals; it assigns to no property of the catalog                        *)
(* variant: the commercial adjustment is written back into the entry read  *)
CatalogAfterCost_InPlace(fd) ==
    IF /\ ~InsufficientInput(fd)
       /\ fd.material \in DOMAIN catalog.pricing[fd.roofingType]
       /\ fd.roofingType = "commercial"
    THEN [catalog EXCEPT !.pricing[fd.roofingType][fd.material] =
             <<RMul(@[1], Rat(11, 10)), RMul(@[2], Rat(11, 10))>>]
    ELSE catalog

CatalogAfterCost(fd) == catalog

(* calculateRoofingCost, statement by statement.  Destructuring the        *)
(* undefined catalog entry of a material that the category does not have   *)
(* raises a TypeError.                                                     *)
calculateRoofingCost(fd) ==
    IF InsufficientInput(fd) THEN Null
    ELSE IF fd.material \notin DOMAIN catalog.pricing[fd.roofingType]
    THEN TypeError
    ELSE
    LET lowCost  == catalog.pricing[fd.roofingType][fd.material][1]
        highCost == catalog.pricing[fd.roofingType][fd.material][2]
        midCost  == MidCost(lowCost, highCost)
        size     == Num(fd.roofSize)
        laborMultiplier == LaborMultiplier(fd.complexity)
        Base(cost) ==
            RepairModifier(
                CommercialAdjustment(
                    RMul(RMul(size, cost), laborMultiplier),
                    fd.roofingType),
                fd.jobType)
        addons    == Addons(fd)
        totalLow  == RAdd(Base(lowCost), addons)
        totalHigh == RAdd(Base(highCost), addons)
        totalMid  == RAdd(Base(midCost), addons)
    IN  [kind      |-> "ok",
         materials |-> MaterialsCost(totalMid),
         labor     |-> LaborCost(totalMid),
         addons    |-> addons,
         totalLow  |-> totalLow,
         totalHigh |-> totalHigh,
         totalMid  |-> totalMid]

----------------------------------------------------------------------------
(* Area estimator                                                          *)

RECURSIVE SqrtBetween(_, _, _)
(* the largest r in lo..hi with r * r <= n, i.e. floor(Math.sqrt(n))       *)
SqrtBetween(n, lo, hi) ==
    IF lo >= hi THEN lo
    ELSE LET mid == (lo + hi + 1) \div 2
         IN  IF mid * mid <= n THEN SqrtBetween(n, mid, hi)
             ELSE SqrtBetween(n, lo, mid - 1)

FloorSqrt(n) == SqrtBetween(n, 0, 46340)

CeilSqrt(n) == LET r == FloorSqrt(n) IN IF r * r = n THEN r ELSE r + 1

(* pitchMultipliers, in tenths *)
pitchMultipliers == [flat |-> 10, low |-> 11, medium |-> 13, steep |-> 15]

(* variant: the value is rounded up, as Math.ceil does *)
MathRound_Ceil(num, den) == -((-num) \div den)

(* variant: the value is rounded down, as Math.floor does *)
MathRound_Floor(num, den) == num \div den

(* Math.round(x) = floor(x + 1/2) for x = num / den, den > 0 *)
MathRound(num, den) == (2 * num + den) \div (2 * den)

(* variant: only the falsy test !footprint is made *)
NoFootprint_FalsyOnly(data) == data.footprint.n = 0

(* if (!footprint || footprint <= 0) return 0 *)
NoFootprint(data) == data.footprint.n = 0 \/ data.footprint.n <= 0

(* calculateRoofSize.  With p the pitch multiplier in tenths and the       *)
(* footprint n/d, the rounded value                                        *)
(* (footprint + 4*sqrt(footprint)*overhang/12) * p/10 * 1.125 is           *)
(* (9*p*n + 3*p*overhang*sqrt(n*d)) / (80*d); the fraction of the          *)
(* irrational term never decides the floor of the half-shifted sum, so its *)
(* integer part (rounded down when added, up when subtracted) is used.     *)
calculateRoofSize(data) ==
    IF NoFootprint(data) THEN 0
    ELSE
    LET p == pitchMultipliers[data.pitch]
        n == data.footprint.n
        d == data.footprint.d
        b == 3 * p * data.overhang
        overhangPart == IF b >= 0 THEN FloorSqrt(b * b * n * d)
                        ELSE -CeilSqrt(b * b * n * d)
    IN  MathRound(9 * p * n + overhangPart, 80 * d)

----------------------------------------------------------------------------
(* Library harness: one invocation per step, inputs from bounded sets      *)

Areas == (-1 .. MaxArea) \cup {1000, 50000}

Materials == MaterialType \cup {""}

Requests ==
    [roofingType : RoofingType, roofSize : Areas, material : Materials,
     jobType : JobType, complexity : ComplexityType,
     tearoff : BOOLEAN, permits : BOOLEAN]

initialFormData ==
    [roofingType |-> "residential", roofSize |-> 0, material |-> "",
     jobType |-> "new", complexity |-> "simple",
     tearoff |-> FALSE, permits |-> FALSE]

initialRoofSizeHelper == [footprint |-> 0, overhang |-> 0, pitch |-> "flat"]

FormInit ==
    /\ formData = initialFormData
    /\ roofSizeHelper = initialRoofSizeHelper
    /\ results = Null
    /\ showResults = FALSE
    /\ calculatedRoofSize = Null
    /\ effectPending = TRUE
    /\ estimatorArg = NoCall
    /\ ops = 0

(* whole footprints and a few fractional ones (0.25, 1.3, 2.2, 4.5) *)
Footprints ==
    {Num(i) : i \in (-1 .. MaxFootprint) \cup {1000}}
    \cup {Rat(1, 4), Rat(13, 10), Rat(22, 10), Rat(9, 2)}

Overhangs == {-12, 0, 1, 12, 24}

HelperInputs ==
    [footprint : Footprints, overhang : Overhangs, pitch : PitchType]

CostCalls == {[fn |-> "calculateRoofingCost", arg |-> r] : r \in Requests}

SizeCalls == {[fn |-> "calculateRoofSize", arg |-> h] : h \in HelperInputs}

LibInit ==
    /\ call \in CostCalls \cup SizeCalls
    /\ ret = NoCall

ModuleInit ==
    /\ catalog = loadedCatalog
    /\ history = <<>>

Init == LibInit /\ FormInit /\ ModuleInit

CallCost ==
    /\ call.fn = "calculateRoofingCost"
    /\ ret = NoCall
    /\ ret' = calculateRoofingCost(call.arg)
    /\ catalog' = CatalogAfterCost(call.arg)
    /\ UNCHANGED <<call, formVars, history>>

CallSize ==
    /\ call.fn = "calculateRoofSize"
    /\ ret = NoCall
    /\ ret' = [kind |-> "size", value |-> calculateRoofSize(call.arg)]
    /\ UNCHANGED <<call, formVars, moduleVars>>

Next == CallCost \/ CallSize

Spec == Init /\ [][Next]_vars

----------------------------------------------------------------------------
(* The form component RoofingCalculator                                    *)

(* the strings typed into the number inputs that parseFloat maps to NaN *)
NaNInputs == {"", "abc"}

(* parseFloat on the other strings the model types *)
parseFloat ==
    ("-5" :> -5) @@ ("0" :> 0) @@ ("1" :> 1) @@ ("1000" :> 1000) @@
    ("50000" :> 50000) @@ ("50001" :> 50001)

(* parseFloat(value) || 0: NaN and 0 are falsy *)
ParseOrZero(value) ==
    IF value \in NaNInputs THEN 0
    ELSE IF parseFloat[value] = 0 THEN 0 ELSE parseFloat[value]

MaxRoofSize == 50000

RoofSizeInputs == {"", "-5", "1000", "50001"}

FootprintInputs == {"abc", "-5", "1000", "50000"}

OverhangInputs == {"", "1"}

(* the (field, value) pairs the selects and checkboxes can deliver *)
FieldInputs ==
    {<<"material", getMaterialOptions(formData.roofingType)[i].value>> :
        i \in DOMAIN getMaterialOptions(formData.roofingType)}
    \cup {<<"jobType", v>> : v \in JobType}
    \cup {<<"complexity", v>> : v \in ComplexityType}
    \cup {<<"tearoff", v>> : v \in BOOLEAN}
    \cup {<<"permits", v>> : v \in BOOLEAN}

(* a user event is handled only after the queued effect has been flushed *)
UserEvent ==
    /\ ~effectPending
    /\ ops < MaxOps
    /\ ops' = ops + 1

(* variant: the effect runs but leaves the selected material in place *)
MaterialResetEffect_KeepsMaterial ==
    /\ effectPending
    /\ effectPending' = FALSE
    /\ UNCHANGED <<formData, roofSizeHelper, results, showResults,
                   calculatedRoofSize, estimatorArg, ops, libVars>>

(* useEffect(() => setFormData(prev => ({...prev, material: ''})),         *)
(*           [formData.roofingType]): runs after mount and after every     *)
(* render in which roofingType changed                                     *)
MaterialResetEffect ==
    /\ effectPending
    /\ formData' = [formData EXCEPT !.material = ""]
    /\ effectPending' = FALSE
    /\ UNCHANGED <<roofSizeHelper, results, showResults, calculatedRoofSize,
                   estimatorArg, ops, libVars>>

handleRoofingTypeChange ==
    \E type \in RoofingType :
        /\ UserEvent
        /\ formData' = [formData EXCEPT !.roofingType = type]
        /\ effectPending' = (type # formData.roofingType)
        /\ UNCHANGED <<roofSizeHelper, results, showResults,
                       calculatedRoofSize, estimatorArg, libVars>>

handleInputChange ==
    \E fv \in FieldInputs :
        /\ UserEvent
        /\ formData' = [formData EXCEPT ![fv[1]] = fv[2]]
        /\ UNCHANGED <<roofSizeHelper, results, showResults,
                       calculatedRoofSize, effectPending, estimatorArg,
                       libVars>>

handleRoofSizeChange ==
    \E value \in RoofSizeInputs :
        LET numValue == ParseOrZero(value) IN
        /\ UserEvent
        /\ formData' =
              IF numValue < 0 THEN formData
              ELSE IF numValue > MaxRoofSize
              THEN [formData EXCEPT !.roofSize = MaxRoofSize]
              ELSE [formData EXCEPT !.roofSize = numValue]
        /\ UNCHANGED <<roofSizeHelper, results, showResults,
                       calculatedRoofSize, effectPending, estimatorArg,
                       libVars>>

(* Get Estimate.  An exception of calculateRoofingCost leaves the handler  *)
(* before any state is set.                                                *)
calculateCost ==
    /\ UserEvent
    /\ IF formData.roofSize = 0 \/ formData.material = ""
       THEN UNCHANGED <<results, showResults, estimatorArg, catalog>>
       ELSE LET costBreakdown == calculateRoofingCost(formData) IN
            /\ estimatorArg' = formData
            /\ catalog' = CatalogAfterCost(formData)
            /\ IF costBreakdown.kind = "ok"
               THEN results' = costBreakdown /\ showResults' = TRUE
               ELSE UNCHANGED <<results, showResults>>
    /\ UNCHANGED <<formData, roofSizeHelper, calculatedRoofSize,
                   effectPending, call, ret, history>>

(* variant: the reset forgets setShowResults(false) *)
resetForm_LeavesShowResults ==
    /\ UserEvent
    /\ formData' = initialFormData
    /\ roofSizeHelper' = initialRoofSizeHelper
    /\ results' = Null
    /\ calculatedRoofSize' = Null
    /\ effectPending' = (formData.roofingType # initialFormData.roofingType)
    /\ UNCHANGED <<showResults, estimatorArg, libVars>>

resetForm ==
    /\ UserEvent
    /\ formData' = initialFormData
    /\ roofSizeHelper' = initialRoofSizeHelper
    /\ results' = Null
    /\ showResults' = FALSE
    /\ calculatedRoofSize' = Null
    /\ effectPending' = (formData.roofingType # initialFormData.roofingType)
    /\ UNCHANGED <<estimatorArg, libVars>>

setRoofSizeHelper ==
    /\ UserEvent
    /\ \/ \E v \in FootprintInputs :
             roofSizeHelper' =
                 [roofSizeHelper EXCEPT !.footprint = ParseOrZero(v)]
       \/ \E v \in OverhangInputs :
             roofSizeHelper' =
                 [roofSizeHelper EXCEPT !.overhang = ParseOrZero(v)]
       \/ \E v \in PitchType :
             roofSizeHelper' = [roofSizeHelper EXCEPT !.pitch = v]
    /\ UNCHANGED <<formData, results, showResults, calculatedRoofSize,
                   effectPending, estimatorArg, libVars>>

calculateRoofSizeHelper ==
    /\ UserEvent
    /\ IF roofSizeHelper.footprint = 0
       THEN UNCHANGED <<calculatedRoofSize, formData>>
       ELSE LET calculatedSize ==
                    calculateRoofSize([roofSizeHelper EXCEPT
                                          !.footprint = Num(@)]) IN
            /\ calculatedRoofSize' = calculatedSize
            /\ formData' = [formData EXCEPT !.roofSize = calculatedSize]
    /\ UNCHANGED <<roofSizeHelper, results, showResults, effectPending,
                   estimatorArg, libVars>>

FormSpecInit ==
    /\ call = [fn |-> "none"]
    /\ ret = NoCall
    /\ FormInit
    /\ ModuleInit

FormNext ==
    \/ MaterialResetEffect
    \/ handleRoofingTypeChange
    \/ handleInputChange
    \/ handleRoofSizeChange
    \/ calculateCost
    \/ resetForm
    \/ setRoofSizeHelper
    \/ calculateRoofSizeHelper

FormSpec == FormSpecInit /\ [][FormNext]_vars

----------------------------------------------------------------------------
(* Sequences of invocations of the three exported functions                *)

SeqRequests ==
    [roofingType : RoofingType, roofSize : {1000},
     material : {"asphalt", "tpo"}, jobType : {"replacement", "repair"},
     complexity : {"complex"}, tearoff : {TRUE}, permits : {TRUE}]

SeqHelperInputs ==
    [footprint : {Num(0), Num(1000)}, overhang : {12},
     pitch : {"flat", "steep"}]

Record(fn, arg, out) ==
    history' = Append(history, [fn |-> fn, arg |-> arg, out |-> out])

InvokeCost ==
    \E r \in SeqRequests :
        /\ Len(history) < MaxCalls
        /\ Record("calculateRoofingCost", r, calculateRoofingCost(r))
        /\ catalog' = CatalogAfterCost(r)
        /\ UNCHANGED <<call, ret, formVars>>

InvokeSize ==
    \E h \in SeqHelperInputs :
        /\ Len(history) < MaxCalls
        /\ Record("calculateRoofSize", h,
                  [kind |-> "size", value |-> calculateRoofSize(h)])
        /\ UNCHANGED <<catalog, call, ret, formVars>>

InvokeOptions ==
    \E t \in RoofingType :
        /\ Len(history) < MaxCalls
        /\ Record("getMaterialOptions", t, getMaterialOptions(t))
        /\ UNCHANGED <<catalog, call, ret, formVars>>

SeqInit ==
    /\ call = [fn |-> "none"]
    /\ ret = NoCall
    /\ FormInit
    /\ ModuleInit

SeqNext == InvokeCost \/ InvokeSize \/ InvokeOptions

SeqSpec == SeqInit /\ [][SeqNext]_vars

----------------------------------------------------------------------------
(* Properties of the cost estimator, checked under Spec                    *)

CostCalled == call.fn = "calculateRoofingCost" /\ ret # NoCall

(* a valid request: area > 0 and material in the category's catalog *)
ValidRequest(r) ==
    r.roofSize > 0 /\ r.material \in DOMAIN materialPricing[r.roofingType]

ValidCostCall == CostCalled /\ ValidRequest(call.arg)

Scenario(roofingType, roofSize, material, jobType, complexity, tearoff,
         permits) ==
    [roofingType |-> roofingType, roofSize |-> roofSize,
     material |-> material, jobType |-> jobType, complexity |-> complexity,
     tearoff |-> tearoff, permits |-> permits]

(* the add-ons value as the claim states it, in halves of a currency unit *)
ExpectedAddons(r) ==
    Rat((IF r.jobType = "replacement" /\ r.tearoff THEN 3 * r.roofSize ELSE 0)
        + (IF r.permits THEN 1000 ELSE 0), 2)

(* area x price x (1 + 0.4 m) x category factor x repair factor + addons *)
ExpectedTotal(r, price) ==
    LET m == CASE r.complexity = "simple" -> Num(0)
               [] r.complexity = "medium" -> Rat(2, 10)
               [] r.complexity = "complex" -> Rat(4, 10)
        labor == RAdd(Num(1), RMul(Rat(4, 10), m))
        category == IF r.roofingType = "commercial" THEN Rat(110, 100)
                    ELSE Num(1)
        repair == IF r.jobType = "repair" THEN Rat(6, 10) ELSE Num(1)
    IN  RAdd(RMul(RMul(RMul(RMul(Num(r.roofSize), price), labor), category),
                  repair),
             ExpectedAddons(r))

(* C1: for every valid request the returned breakdown satisfies            *)
(* materials + labor + addons = totalMid, also when the add-ons are not 0. *)
C1_BreakdownSumsToMid ==
    ValidCostCall =>
        /\ ret.kind = "ok"
        /\ RAdd(RAdd(ret.materials, ret.labor), ret.addons) = ret.totalMid

(* C2: for area > 0 and a non-empty material that is absent from the       *)
(* catalog of the requested category, the estimator returns null and does  *)
(* not raise an exception.                                                 *)
C2_AbsentMaterialReturnsNull ==
    (/\ CostCalled
     /\ call.arg.roofSize > 0
     /\ call.arg.material # ""
     /\ call.arg.material \notin DOMAIN materialPricing[call.arg.roofingType])
    => ret = Null

(* C3: for every valid request totalLow <= totalMid <= totalHigh. *)
C3_TotalsOrdered ==
    ValidCostCall =>
        /\ ret.kind = "ok"
        /\ RLe(ret.totalLow, ret.totalMid)
        /\ RLe(ret.totalMid, ret.totalHigh)

C3_Witness ==
    /\ ValidCostCall
    /\ ret.kind = "ok"
    /\ call.arg.jobType = "repair"
    /\ call.arg.roofingType = "commercial"
    /\ call.arg.permits
    /\ ret.totalLow # ret.totalMid
    /\ ret.totalMid # ret.totalHigh

(* C4: whenever area <= 0 or the material is the empty string, the         *)
(* estimator returns null and never a breakdown, whatever the other fields.*)
C4_InsufficientInputIsNull ==
    (CostCalled /\ (call.arg.roofSize <= 0 \/ call.arg.material = ""))
    => ret = Null

C4_Witness ==
    /\ CostCalled
    /\ call.arg.roofSize < 0
    /\ call.arg.material = "asphalt"
    /\ call.arg.permits
    /\ ret = Null

(* C6: for every valid request each total is area x price x (1 + 0.4 m) x  *)
(* (1.10 if commercial) x (0.6 if repair) + addons with price low, mid,    *)
(* high; commercial, 1000, tpo, complex, new, permits gives totalMid 8156. *)
C6_TotalsClosedForm ==
    ValidCostCall =>
        LET r == call.arg
            low  == materialPricing[r.roofingType][r.material][1]
            high == materialPricing[r.roofingType][r.material][2]
            mid  == Rat(low.n * high.d + high.n * low.d, 2 * low.d * high.d)
        IN  /\ ret.kind = "ok"
            /\ ret.totalLow = ExpectedTotal(r, low)
            /\ ret.totalMid = ExpectedTotal(r, mid)
            /\ ret.totalHigh = ExpectedTotal(r, high)
            /\ (r = Scenario("commercial", 1000, "tpo", "new", "complex",
                             FALSE, TRUE)
                 => ret.totalMid = Num(8156))

C6_Witness ==
    /\ CostCalled
    /\ call.arg = Scenario("commercial", 1000, "tpo", "new", "complex",
                           FALSE, TRUE)
    /\ ret.kind = "ok"
    /\ ret.totalMid = Num(8156)

(* C7: the add-ons value is (area x 1.5 if replacement and tear-off, else  *)
(* 0) + (500 if permits, else 0), whatever the complexity, category and    *)
(* material; residential, 1000, asphalt, replacement, tear-off gives       *)
(* addons 1500 and totals 6500 / 9000 / 11500.                             *)
C7_AddonsValue ==
    ValidCostCall =>
        /\ ret.kind = "ok"
        /\ ret.addons = ExpectedAddons(call.arg)
        /\ (call.arg.jobType # "replacement" /\ ~call.arg.permits
             => ret.addons = Num(0))
        /\ (call.arg = Scenario("residential", 1000, "asphalt", "replacement",
                                "simple", TRUE, FALSE)
             => /\ ret.addons = Num(1500)
                /\ ret.totalLow = Num(6500)
                /\ ret.totalMid = Num(9000)
                /\ ret.totalHigh = Num(11500))

C7_Witness ==
    /\ CostCalled
    /\ call.arg = Scenario("residential", 1000, "asphalt", "replacement",
                           "simple", TRUE, FALSE)
    /\ ret.kind = "ok"
    /\ ret.addons = Num(1500)

(* C8: the display breakdown is derived from totalMid only: materials =    *)
(* totalMid x 0.6, labor = totalMid x 0.4, and the addons field is the     *)
(* add-ons value itself; residential, 1000, asphalt, new, simple, no       *)
(* add-ons gives 5000 / 7500 / 10000, materials 4500, labor 3000, addons 0.*)
C8_BreakdownFromTotalMid ==
    ValidCostCall =>
        /\ ret.kind = "ok"
        /\ RMul(ret.materials, Num(10)) = RMul(ret.totalMid, Num(6))
        /\ RMul(ret.labor, Num(10)) = RMul(ret.totalMid, Num(4))
        /\ ret.addons = ExpectedAddons(call.arg)
        /\ (call.arg = Scenario("residential", 1000, "asphalt", "new",
                                "simple", FALSE, FALSE)
             => /\ ret.totalLow = Num(5000)
                /\ ret.totalMid = Num(7500)
                /\ ret.totalHigh = Num(10000)
                /\ ret.materials = Num(4500)
                /\ ret.labor = Num(3000)
                /\ ret.addons = Num(0))

C8_Witness ==
    /\ CostCalled
    /\ call.arg.permits
    /\ call.arg.roofSize = 1000
    /\ ret.kind = "ok"
    /\ ret.addons = Num(500)
    /\ RMul(ret.materials, Num(10)) = RMul(ret.totalMid, Num(6))

(* C9: two valid requests that differ only in complexity have the same     *)
(* materials subtotal; only labor (and the totals) differ.                 *)
C9_ComplexityLeavesMaterials ==
    ValidCostCall =>
        \A c \in ComplexityType :
            calculateRoofingCost([call.arg EXCEPT !.complexity = c]).materials
                = ret.materials

----------------------------------------------------------------------------
(* Properties of the form component, checked under FormSpec                *)

(* C5: whatever the sequence of form operations, the roofSize with which   *)
(* calculateRoofingCost is invoked is at most 50,000.                      *)
C5_EstimatorAreaCapped ==
    estimatorArg # NoCall => estimatorArg.roofSize <= MaxRoofSize

----------------------------------------------------------------------------
(* Properties of the area estimator, checked under Spec                    *)

SizeCalled == call.fn = "calculateRoofSize" /\ ret # NoCall

ScenarioC10 ==
    [footprint |-> Num(1000), overhang |-> 12, pitch |-> "medium"]

(* C10 as stated: footprint 1000, overhang 12, pitch medium returns 1648. *)
C10_Returns1648 ==
    (SizeCalled /\ call.arg = ScenarioC10) => ret.value = 1648

(* C10 as amended: footprint 1000, overhang 12, pitch medium returns 1647, *)
(* the integer nearest to (1000 + 4 sqrt(1000) 12/12) x 1.3 x 1.125 =      *)
(* (117000 + 468 sqrt(1000)) / 80: with v the returned value,              *)
(* 80 v - 40 <= 117000 + 468 sqrt(1000) < 80 v + 40.                       *)
C10_Returns1647 ==
    (SizeCalled /\ call.arg = ScenarioC10) =>
        LET v == ret.value
            lo == 80 * v - 40 - 117000
            hi == 80 * v + 40 - 117000
        IN  /\ v = 1647
            /\ lo >= 0
            /\ lo * lo <= 468 * 468 * 1000
            /\ 468 * 468 * 1000 < hi * hi

C10_Witness ==
    /\ SizeCalled
    /\ call.arg = ScenarioC10
    /\ ret.value = 1647

(* The returned value v is the integer nearest to                          *)
(* (footprint + 4 sqrt(footprint) overhang/12) x pitch x 1.125             *)
(*   = (9 p n + 3 p overhang sqrt(n d)) / (80 d)                           *)
(* for footprint n/d and pitch multiplier p/10, i.e.                       *)
(* 80 d v - 40 d <= 9 p n + sqrt((3 p overhang)^2 n d) < 80 d v + 40 d.    *)
NearestToFormula(data, v) ==
    LET p == CASE data.pitch = "flat" -> 10
               [] data.pitch = "low" -> 11
               [] data.pitch = "medium" -> 13
               [] data.pitch = "steep" -> 15
        n == data.footprint.n
        d == data.footprint.d
        sq == 9 * p * p * data.overhang * data.overhang * n * d
        lo == 80 * d * v - 40 * d - 9 * p * n
        hi == 80 * d * v + 40 * d - 9 * p * n
    IN  /\ lo <= 0 \/ lo * lo <= sq
        /\ hi > 0
        /\ sq < hi * hi

C11Case ==
    SizeCalled /\ call.arg.footprint.n > 0 /\ call.arg.overhang >= 0

(* v >= footprint n/d *)
NotSmallerThanFootprint(data, v) == v * data.footprint.d >= data.footprint.n

(* C11 as stated: for every footprint > 0, overhang >= 0 and pitch, the    *)
(* result is the integer nearest to the formula and is never smaller than  *)
(* the footprint.                                                          *)
C11_NearestAndNotSmaller ==
    C11Case =>
        /\ NearestToFormula(call.arg, ret.value)
        /\ NotSmallerThanFootprint(call.arg, ret.value)

(* C11 as amended: for every footprint > 0, overhang >= 0 and pitch, the   *)
(* result is the integer nearest to the formula; it is not smaller than    *)
(* the footprint when the footprint is a whole number or at least 4.       *)
C11_NearestAndNotSmallerWhole ==
    C11Case =>
        /\ NearestToFormula(call.arg, ret.value)
        /\ (call.arg.footprint.d = 1 \/ call.arg.footprint.n >= 4 * call.arg.footprint.d)
            => NotSmallerThanFootprint(call.arg, ret.value)

C11_Witness ==
    /\ C11Case
    /\ call.arg.footprint = Num(3)
    /\ call.arg.overhang = 24
    /\ call.arg.pitch = "steep"
    /\ ret.value > 3

(* C12: calculateRoofSize returns 0 whenever footprint <= 0, for every     *)
(* overhang and pitch, and a non-zero value only when footprint > 0.       *)
C12_NoFootprintGivesZero ==
    SizeCalled =>
        /\ (call.arg.footprint.n <= 0 => ret.value = 0)
        /\ (ret.value # 0 => call.arg.footprint.n > 0)

C12_Witness ==
    /\ SizeCalled
    /\ call.arg.footprint = Num(-1)
    /\ call.arg.overhang = 24
    /\ call.arg.pitch = "steep"
    /\ ret.value = 0

----------------------------------------------------------------------------
(* Properties of sequences of invocations, checked under SeqSpec           *)

(* C13: in any sequence of invocations of calculateRoofingCost and         *)
(* calculateRoofSize, interleaved with getMaterialOptions, two calls with  *)
(* identical input yield identical output, and no call changes the pricing *)
(* catalog that later calls read.                                          *)
C13_DeterministicAndStateless ==
    /\ catalog = loadedCatalog
    /\ \A i, j \in DOMAIN history :
          (history[i].fn = history[j].fn /\ history[i].arg = history[j].arg)
          => history[i].out = history[j].out

C13_Witness ==
    /\ Len(history) = 3
    /\ history[1].fn = "calculateRoofingCost"
    /\ history[1].arg.roofingType = "commercial"
    /\ history[1].out.kind = "ok"
    /\ history[2].fn = "getMaterialOptions"
    /\ history[3].fn = "calculateRoofingCost"
    /\ history[3].arg = history[1].arg
    /\ history[3].out = history[1].out

OptionsCalls == {i \in DOMAIN history : history[i].fn = "getMaterialOptions"}

(* the label of a material as the catalog defines it *)
ExpectedLabel(roofingType, material) ==
    materialLabels[roofingType][material] \o " ($"
        \o NumberToString(materialPricing[roofingType][material][1]) \o "-$"
        \o NumberToString(materialPricing[roofingType][material][2])
        \o "/sq ft)"

(* C14: getMaterialOptions(category) returns, in catalog order, exactly    *)
(* one entry per material code of that category's pricing table and none   *)
(* for a material of the other category only; each entry carries the       *)
(* catalog's (low, high) range and a label built from a display name that  *)
(* is defined for that material in the same category.                      *)
C14_OptionsMatchCatalog ==
    \A i \in OptionsCalls :
        LET t == history[i].arg
            out == history[i].out
            other == CHOOSE o \in RoofingType : o # t
        IN  /\ Len(out) = Cardinality(DOMAIN materialPricing[t])
            /\ {out[k].value : k \in DOMAIN out} = DOMAIN materialPricing[t]
            /\ DOMAIN materialPricing[t] \subseteq DOMAIN materialLabels[t]
            /\ [k \in DOMAIN out |-> out[k].value] =
                   (IF t = "residential"
                    THEN <<"asphalt", "clay", "metal", "wood", "slate",
                           "membrane">>
                    ELSE <<"tpo", "pvc", "epdm", "modified", "bur", "metal",
                           "asphalt">>)
            /\ \A k \in DOMAIN out :
                  /\ out[k].value \notin
                        DOMAIN materialPricing[other] \ DOMAIN materialPricing[t]
                  /\ out[k].costRange = materialPricing[t][out[k].value]
                  /\ out[k].label = ExpectedLabel(t, out[k].value)
            /\ (t = "residential"
                 => out[1].label = "Asphalt Shingles ($5-$10/sq ft)")
            /\ (t = "commercial"
                 => /\ out[4].label = "Modified Bitumen ($4.5-$9/sq ft)"
                    /\ out[6].label = "Metal ($8-$15/sq ft)")

C14_Witness ==
    \E i \in OptionsCalls :
        /\ history[i].arg = "commercial"
        /\ Len(history[i].out) = 7
        /\ history[i].out[5].value = "bur"
        /\ history[i].out[5].label = "Built-Up Roofing (BUR) ($5.5-$10/sq ft)"

(* C15: every entry of the pricing catalog, for both categories, is a     *)
(* pair (low, high) with low > 0, high > 0 and low <= high.                *)
C15_CatalogEntriesOrdered ==
    /\ DOMAIN catalog.pricing = RoofingType
    /\ \A t \in RoofingType :
          \A m \in DOMAIN catalog.pricing[t] :
              LET entry == catalog.pricing[t][m] IN
              /\ Len(entry) = 2
              /\ entry[1].n > 0
              /\ entry[2].n > 0
              /\ entry[1].n * entry[2].d <= entry[2].n * entry[1].d

C15_Witness ==
    /\ Len(history) > 0
    /\ history[1].fn = "calculateRoofingCost"
    /\ history[1].out.kind = "ok"
    /\ Cardinality(DOMAIN catalog.pricing["residential"]) = 6
    /\ Cardinality(DOMAIN catalog.pricing["commercial"]) = 7
    /\ catalog.pricing["commercial"]["modified"] = <<Rat(9, 2), Num(9)>>

----------------------------------------------------------------------------
(* Further properties of the form component, checked under FormSpec        *)

BelongsTo(material, roofingType) ==
    material \in DOMAIN materialPricing[roofingType]

(* C16: once the material-reset effect that follows a roofing-type change  *)
(* has run, the selected material is empty or a key of the pricing catalog *)
(* of the selected roofing type; every Get Estimate click that reaches     *)
(* calculateRoofingCost passes a material of the requested category.       *)
C16_MaterialBelongsToType ==
    /\ ~effectPending =>
          \/ formData.material = ""
          \/ BelongsTo(formData.material, formData.roofingType)
    /\ estimatorArg # NoCall =>
          BelongsTo(estimatorArg.material, estimatorArg.roofingType)

C16_Witness ==
    /\ estimatorArg # NoCall
    /\ estimatorArg.roofingType = "residential"
    /\ estimatorArg.material = "slate"
    /\ formData.roofingType = "commercial"
    /\ ~effectPending
    /\ formData.material = ""

(* a step that changes results or showResults is a successful Get Estimate *)
(* (roof size and material present, breakdown returned, both set) or a     *)
(* Reset (both cleared together with the rest of the form state)           *)
ResultsStep ==
    (results' # results \/ showResults' # showResults) =>
        \/ /\ formData' = formData
           /\ formData.roofSize # 0
           /\ formData.material # ""
           /\ calculateRoofingCost(formData).kind = "ok"
           /\ results' = calculateRoofingCost(formData)
           /\ showResults' = TRUE
        \/ /\ results' = Null
           /\ showResults' = FALSE
           /\ formData' = initialFormData
           /\ roofSizeHelper' = initialRoofSizeHelper
           /\ calculatedRoofSize' = Null

(* C17: in every reachable state showResults is true exactly when results  *)
(* holds a breakdown; a Get Estimate click with roof size 0, no material   *)
(* or a null answer leaves both unchanged, a successful one sets both, and *)
(* Reset clears both together with the rest of the form state.             *)
C17_ShowResultsIffResults ==
    /\ [](showResults <=> results # Null)
    /\ [](results # Null => results.kind = "ok")
    /\ [][ResultsStep]_vars

C17_Witness ==
    /\ showResults
    /\ results.kind = "ok"
    /\ results.totalMid = Num(7500)
    /\ formData.roofSize = 0
    /\ estimatorArg # NoCall

=============================================================================
